---- MODULE Spec2Model ----
(***************************************************************************)
(* Agent service (backend/agent-service/main.py): one agent task, the      *)
(* engine that executes it (BaseAgent / FeatureImplementerAgent), the      *)
(* Redis entry that holds its snapshot, and the cancel endpoint that runs  *)
(* concurrently with the engine.                                           *)
(*                                                                         *)
(* One action is one stretch of handler code between two awaits: the       *)
(* event loop interleaves the engine and the request handlers only there.  *)
(***************************************************************************)
EXTENDS Naturals, Sequences, FiniteSets

\* ------------------------------------------------------------ bounds
\* Longest step list the planner's parsed response holds.
MaxPlanLen == 2
\* Steps whose collaborator calls may fail in one run (each of them on any of
\* its invocations).
MaxFaultySteps == 1
\* Store outages in one run (specification SpecStoreFaults only).
MaxOutages == 1
\* How many queries in a row, with the entry unchanged between them, are followed.
MaxQueries == 2

\* ------------------------------------------------------------ constants
\* AgentStep.max_retries default.
DefaultMaxRetries == 3

\* AgentStatus
PENDING == "pending"
RUNNING == "running"
COMPLETED == "completed"
FAILED == "failed"
CANCELLED == "cancelled"

\* StepStatus (its values are the same strings as AgentStatus's)
STEP_PENDING == "pending"
STEP_RUNNING == "running"
STEP_COMPLETED == "completed"
STEP_FAILED == "failed"

\* AgentType: the one variant create_agent knows, and one it does not.
FEATURE_IMPLEMENTER == "feature_implementer"
BUG_FIXER == "bug_fixer"
AgentTypes == {FEATURE_IMPLEMENTER, BUG_FIXER}

\* The statuses cancel_agent_task refuses.
TerminalStatuses == {COMPLETED, FAILED, CANCELLED}

\* The step types execute_step_logic dispatches on.
KnownStepTypes == {"analysis", "design", "implementation", "testing", "documentation"}
\* Step types a planner response carries in this model: one known, one not.
PlannedStepTypes == {"implementation", "deploy"}

\* The cancel requests, named in the order in which they read the store.
CancelOrder == <<"c1", "c2">>
CancelIds == {CancelOrder[k] : k \in 1..Len(CancelOrder)}

\* Exceptions, by what str(e) gives.
ExecError == "executor error"
StoreError == "redis error"
PlannerError == "planner error"
NotifyError == "send error"
NoError == "none"

\* ------------------------------------------------------------ messages
\* Optional[str] = None
NoMessage == <<>>
\* str(e)
Str(e) == <<e>>
\* f"Step {step.name} failed: {str(e)}"
StepFailedMessage(name, e) == <<"Step", name, "failed:", e>>
\* Whether a message contains the step's name.
NamesStep(msg, name) == \E k \in 1..Len(msg) : msg[k] = name

\* ------------------------------------------------------------ progress
\* A progress value is the exact fraction num/den of 100 percent.
Progress(num, den) == [num |-> num, den |-> den]
\* AgentTask.progress default 0.0
ZeroProgress == Progress(0, 1)
\* Mutant: the share of the steps still to do.
ProgressRemaining(idx, n) == Progress(n - idx, n)
\* Mutant: counts the step about to run as done.
ProgressOffByOne(idx, n) == Progress(idx + 1, n)
\* ((i + 1) / len(self.task.steps)) * 100, i the 0-based index; idx = i + 1
ProgressAfter(idx, n) == Progress(idx, n)
ProgressLeq(p, q) == p.num * q.den <= q.num * p.den
ProgressIs100(p) == p.num = p.den
ProgressInRange(p) == p.num >= 0 /\ p.den > 0 /\ p.num <= p.den

\* ------------------------------------------------------------ steps
\* AgentStep(id, name, description, type) with the defaults of the model.
AgentStep(id, name, type) ==
  [id |-> id, name |-> name, type |-> type, status |-> STEP_PENDING,
   retry_count |-> 0, max_retries |-> DefaultMaxRetries,
   error_message |-> NoMessage, files_created |-> 0, dependencies |-> <<>>]

\* Mutant: an id that does not carry the position.
StepIdWithoutPosition(i) == <<"step", 0>>
\* f"step_{i}"
StepId(i) == <<"step", i>>

\* The fallback plan of generate_plan.
\* Mutant: a default plan that tests before it implements.
DefaultPlanTestsFirst ==
  << AgentStep(StepId(0), "Analyze Requirements", "analysis"),
     AgentStep(StepId(1), "Design Implementation", "design"),
     AgentStep(StepId(2), "Generate Tests", "testing"),
     AgentStep(StepId(3), "Implement Feature", "implementation"),
     AgentStep(StepId(4), "Update Documentation", "documentation") >>
\* lines 405-436: the plan of the except branch.
DefaultPlan ==
  << AgentStep(StepId(0), "Analyze Requirements", "analysis"),
     AgentStep(StepId(1), "Design Implementation", "design"),
     AgentStep(StepId(2), "Implement Feature", "implementation"),
     AgentStep(StepId(3), "Generate Tests", "testing"),
     AgentStep(StepId(4), "Update Documentation", "documentation") >>

\* The "dependencies" a plan of n steps declares: none, or every step but the
\* last names the step after it (an order opposite to the list's).
PlanDependencies(n) ==
  {[i \in 1..n |-> <<>>],
   [i \in 1..n |-> IF i < n THEN <<StepId(i)>> ELSE <<>>]}

\* The step lists a parsed planner response gives: every sequence of planned
\* step types up to MaxPlanLen, the empty list included.
PlanData ==
  UNION {{[i \in 1..n |-> [type |-> ts[i], dependencies |-> d[i]]] :
            ts \in [1..n -> PlannedStepTypes], d \in PlanDependencies(n)} :
         n \in 0..MaxPlanLen}
\* [AgentStep(id=f"step_{i}", name=step["name"], type=step["type"]) for i, step in enumerate(plan_data)]
StepsFromPlan(p) ==
  [i \in 1..Len(p) |->
     [AgentStep(StepId(i - 1), p[i].type, p[i].type)
        EXCEPT !.dependencies = p[i].dependencies]]

\* Mutant: a step that declares dependencies waits for the step after it.
NextStepDependenciesFirst(steps, i) ==
  IF i + 2 <= Len(steps) /\ steps[i + 1].dependencies # <<>> THEN i + 2 ELSE i + 1
\* line 186, enumerate(self.task.steps): the step the loop takes after step i
\* (i = 0 before the loop).
NextStep(steps, i) == i + 1

\* What the planner call does: the context fetch or the AI call raises, the
\* response does not parse to steps, or it parses to plan data.
PlannerOutcomes ==
  {[kind |-> "raises"], [kind |-> "unparsable"]}
    \cup {[kind |-> "parsed", data |-> p] : p \in PlanData}

\* ------------------------------------------------------------ task
\* Optional[datetime] = None, Optional[float] = None; a value v is <<v>>.
NoTime == <<>>
\* What datetime.utcnow() reads when execute starts (the origin is arbitrary).
StartTimes == {100}
\* How long after started_at the clock may be read again.
Elapsed == {0, 7}
\* The readings datetime.utcnow() may give to a task with t's stamps.
Utcnow(t) ==
  IF t.started_at = NoTime THEN StartTimes
  ELSE {x \in {t.started_at[1] + d : d \in Elapsed} :
          t.completed_at # NoTime => x >= t.completed_at[1]}
\* Mutant: completed_at is stamped, the duration is left out.
StampWithoutDuration(t, now) == [t EXCEPT !.completed_at = <<now>>]
\* lines 203-205 and 214-216: completed_at, and the duration if started_at is set.
Stamp(t, now) ==
  IF t.started_at # NoTime
  THEN [t EXCEPT !.completed_at = <<now>>, !.duration = <<now - t.started_at[1]>>]
  ELSE [t EXCEPT !.completed_at = <<now>>]
\* Mutant: the task is created already RUNNING.
NewTaskRunning(agent_type) ==
  [agent_type |-> agent_type, status |-> RUNNING, progress |-> ZeroProgress,
   steps |-> <<>>, result |-> <<>>, error_message |-> NoMessage,
   started_at |-> NoTime, completed_at |-> NoTime, duration |-> NoTime]
\* AgentTask(...) as create_agent_task builds it.
NewTask(agent_type) ==
  [agent_type |-> agent_type, status |-> PENDING, progress |-> ZeroProgress,
   steps |-> <<>>, result |-> <<>>, error_message |-> NoMessage,
   started_at |-> NoTime, completed_at |-> NoTime, duration |-> NoTime]

VARIABLES
  task,          \* the engine's working copy (self.task)
  store,         \* the Redis entry agent_task:<id>: <<>> or <<snapshot>>
  storeUp,       \* whether Redis answers
  outages,       \* outages so far
  pc,            \* where the background execution stands
  idx,           \* self.current_step_index + 1 (0 before the loop)
  exc,           \* the exception in flight to execute's handler
  invoked,       \* per step: the outcomes of its execute_step_logic invocations (TRUE: returned)
  planned,       \* what the planner call did ("none" before it)
  faulty,        \* the steps whose collaborator calls have failed so far
  cancel,        \* per cancel request: where it stands and what it read
  active_connections, \* active_connections: <<>> or <<the socket registered for the task's project_id>>
  sockets,       \* per websocket: its state and how many events its client received
  lastNotify,    \* what the latest broadcast_update call did ("none" before the first)
  ttl,           \* seconds the Redis entry has left to live (0: no entry)
  reply,         \* what the latest query returned, while the entry is as that query saw it
  sameQueries,   \* how many queries have been answered since the entry last changed
  sleeping       \* the delay of the asyncio.sleep the engine is in (0: not sleeping)

hubVars == <<active_connections, sockets, lastNotify>>
qVars == <<ttl, reply, sameQueries>>
vars == <<task, store, storeUp, outages, pc, idx, exc, invoked, planned, faulty, cancel, hubVars, qVars, sleeping>>

\* The websocket connections the clients of the task's project open, in the
\* order in which they connect.
SocketOrder == <<"w1", "w2">>
SocketIds == {SocketOrder[k] : k \in 1..Len(SocketOrder)}
\* A connection not yet made.
NewSocket == [state |-> "unused", received |-> 0]

\* No query has been answered since the entry last changed.
NoReply == [status |-> 0]

\* A cancel request: where it stands, the snapshot it read, and (for a request
\* that wrote) how many steps had finished when it wrote between two steps.
IdleCancel == [pc |-> "idle", snap |-> <<>>, after |-> 0]

Init ==
  /\ task \in {NewTask(a) : a \in AgentTypes}
  /\ store = <<>>
  /\ storeUp = TRUE
  /\ outages = 0
  /\ pc = "submit"
  /\ idx = 0
  /\ exc = NoError
  /\ invoked = <<>>
  /\ planned = "none"
  /\ faulty = {}
  /\ cancel = [c \in CancelIds |-> IdleCancel]
  /\ active_connections = <<>>
  /\ sockets = [s \in SocketIds |-> NewSocket]
  /\ lastNotify = "none"
  /\ ttl = 0
  /\ reply = NoReply
  /\ sameQueries = 0
  /\ sleeping = 0

\* ------------------------------------------------------------ store
\* redis_client.setex(key, 3600, task.json()): the entry after the write.
Setex(t) == <<t>>
\* save_task: the store after self.task = t is saved while Redis answers.
SaveTask(t) == Setex(t)
\* The expiry every setex gives the entry (lines 279, 721, 765).
Ttl == 3600
\* Mutant: a write that keeps the remaining lifetime of an entry that exists.
EntryWrittenKeepsExpiry ==
  /\ ttl' = IF store = <<>> THEN Ttl ELSE ttl
  /\ reply' = NoReply
  /\ sameQueries' = 0
\* setex wrote the entry: its expiry starts anew, and what earlier queries
\* returned is no longer what the entry holds.
EntryWritten ==
  /\ ttl' = Ttl
  /\ reply' = NoReply
  /\ sameQueries' = 0
EntryUntouched == UNCHANGED <<ttl, reply, sameQueries>>


\* ------------------------------------------------------------ submission
\* create_agent_task: store the PENDING snapshot, schedule the background
\* execution, return. A failing store write fails the request before the
\* execution is scheduled.
CreateAgentTask ==
  /\ pc = "submit"
  /\ IF storeUp
     THEN /\ store' = Setex(task)
          /\ pc' = "queued"
     ELSE /\ pc' = "submit_failed"
          /\ UNCHANGED store
  /\ IF storeUp THEN EntryWritten ELSE EntryUntouched
  /\ UNCHANGED <<task, storeUp, outages, idx, exc, invoked, planned, faulty, cancel, hubVars, sleeping>>

\* create_agent: only FEATURE_IMPLEMENTER has an agent.
HasAgent(agent_type) == agent_type = FEATURE_IMPLEMENTER

\* execute_agent_task up to agent.execute(): create_agent raises ValueError for
\* an unknown type, which execute_agent_task logs; nothing is written.
ExecuteAgentTask ==
  /\ pc = "queued"
  /\ pc' = IF HasAgent(task.agent_type) THEN "execute" ELSE "no_agent"
  /\ UNCHANGED <<task, store, storeUp, outages, idx, exc, invoked, planned, faulty, cancel, hubVars, qVars, sleeping>>

\* ------------------------------------------------------------ execute
\* execute, lines 178-180: RUNNING, started_at, save_task.
ExecuteStart(now) ==
  /\ pc = "execute"
  /\ task' = [task EXCEPT !.status = RUNNING, !.started_at = <<now>>]
  /\ IF storeUp
     THEN /\ store' = SaveTask(task')
          /\ pc' = "plan"
          /\ exc' = NoError
     ELSE /\ pc' = "except"
          /\ exc' = StoreError
          /\ UNCHANGED store
  /\ IF storeUp THEN EntryWritten ELSE EntryUntouched
  /\ UNCHANGED <<storeUp, outages, idx, invoked, planned, faulty, cancel, hubVars, sleeping>>

\* generate_plan's result for a planner outcome that does not raise: the steps
\* of the parsed response, or the fallback plan when parsing fails.
PlannedSteps(o) == IF o.kind = "parsed" THEN StepsFromPlan(o.data) ELSE DefaultPlan
\* Whether generate_plan lets the planner's failure escape to execute.
PlanRaises(o) == o.kind = "raises"

\* execute line 183, generate_plan: get_project_files and call_ai_service are
\* outside the try, only the parse is inside it.
GeneratePlan(o) ==
  /\ pc = "plan"
  /\ IF PlanRaises(o)
     THEN /\ pc' = "except"
          /\ exc' = PlannerError
          /\ UNCHANGED <<task, idx, invoked>>
     ELSE LET steps == PlannedSteps(o) IN
          /\ task' = [task EXCEPT !.steps = steps]
          /\ invoked' = [i \in 1..Len(steps) |-> <<>>]
          /\ idx' = IF Len(steps) = 0 THEN 0 ELSE NextStep(steps, 0)
          /\ pc' = IF Len(steps) = 0 THEN "finalize" ELSE "step_start"
          /\ exc' = NoError
  /\ planned' = o.kind
  /\ UNCHANGED <<store, storeUp, outages, faulty, cancel, hubVars, qVars, sleeping>>

\* ------------------------------------------------------------ execute_step
\* lines 245-249
StepFailed(step, e) ==
  [step EXCEPT !.status = STEP_FAILED, !.error_message = Str(e)]
\* Mutant: one retry too many.
CanRetryOffByOne(step) == step.retry_count <= step.max_retries
\* line 252
CanRetry(step) == step.retry_count < step.max_retries
\* Mutant: the failed attempt's error message is kept.
RetryStepKeepsError(step) ==
  [step EXCEPT !.retry_count = @ + 1, !.status = STEP_PENDING]
\* lines 253-255
RetryStep(step) ==
  [step EXCEPT !.retry_count = @ + 1, !.status = STEP_PENDING,
               !.error_message = NoMessage]
\* Mutant: the exhausted step's message is recorded, the status is left alone.
TaskFailedByStepKeepsStatus(t, step, e) ==
  [t EXCEPT !.error_message = StepFailedMessage(step.name, e)]
\* Mutant: the sleep is computed from the count before its increment.
BackoffDelayBeforeIncrement(step) == 2^(step.retry_count - 1)
\* line 257, asyncio.sleep(2 ** step.retry_count), for the step as lines
\* 253-255 have left it.
BackoffDelay(step) == 2^step.retry_count
\* Mutant: a retry recomputes the task's progress.
RetryTaskRecomputesProgress(t, failed) ==
  [t EXCEPT !.steps[idx] = RetryStep(failed),
            !.progress = ProgressAfter(idx, Len(t.steps))]
\* lines 252-255: the working copy when failed step idx is to be retried.
RetryTask(t, failed) == [t EXCEPT !.steps[idx] = RetryStep(failed)]
\* lines 260-261
TaskFailedByStep(t, step, e) ==
  [t EXCEPT !.status = FAILED, !.error_message = StepFailedMessage(step.name, e)]

\* ------------------------------------------------------------ notifications
\* The registry and the sockets as one value, so that a handler's effect on
\* them can be computed before the step is taken.
Hub == [active_connections |-> active_connections, sockets |-> sockets,
        lastNotify |-> lastNotify]
SetHub(h) ==
  /\ active_connections' = h.active_connections
  /\ sockets' = h.sockets
  /\ lastNotify' = h.lastNotify

\* json.dumps({"type": ..., "task": self.task.dict(), ...}), lines 288-292:
\* task.dict() holds created_at (always set, line 101) as a datetime object,
\* which json.dumps rejects with TypeError before send_text is called.
JsonDumpsRaises(t) == TRUE

\* broadcast_update, lines 285-295: nothing to do without a registered socket;
\* otherwise the event is encoded and sent, and either may raise.
BroadcastOutcome(h, t) ==
  IF h.active_connections = <<>> THEN "no_sink"
  ELSE IF JsonDumpsRaises(t) THEN "failed"
  ELSE IF h.sockets[h.active_connections[1]].state = "open" THEN "delivered"
  ELSE "failed"
\* Mutant: a failed delivery is raised to the caller.
BroadcastRaisesOnFailure(outcome) == outcome = "failed"
\* lines 286 and 294-295: the try/except around the send logs and swallows.
BroadcastRaises(outcome) == FALSE
\* The registry and sockets after broadcast_update() for working copy t.
BroadcastUpdate(h, t) ==
  LET o == BroadcastOutcome(h, t) IN
  [h EXCEPT !.lastNotify = o,
            !.sockets = IF o = "delivered"
                        THEN [@ EXCEPT ![h.active_connections[1]].received = @ + 1]
                        ELSE @]

\* execute_step's except block, lines 243-264, for the working copy t in which
\* exception e was raised, with st the store and h the registry at that
\* point and saved telling whether the entry was written on the way: retry after the backoff sleep, or fail the task, save, broadcast,
\* and re-raise (a failing save raises its own exception instead).
OnStepExceptionFrom(st, saved, h, t, e) ==
  LET failed == StepFailed(t.steps[idx], e) IN
  IF CanRetry(failed)
  THEN /\ task' = RetryTask(t, failed)
       /\ sleeping' = BackoffDelay(task'.steps[idx])
       /\ pc' = "backoff"
       /\ exc' = NoError
       /\ store' = st
       /\ IF saved THEN EntryWritten ELSE EntryUntouched
       /\ SetHub(h)
  ELSE /\ task' = TaskFailedByStep([t EXCEPT !.steps[idx] = failed], failed, e)
       /\ store' = IF storeUp THEN SaveTask(task') ELSE st
       /\ IF storeUp \/ saved THEN EntryWritten ELSE EntryUntouched
       /\ SetHub(IF storeUp THEN BroadcastUpdate(h, task') ELSE h)
       /\ exc' = IF ~storeUp THEN StoreError
                 ELSE IF BroadcastRaises(BroadcastOutcome(h, task')) THEN NotifyError
                 ELSE e
       /\ pc' = "except"
       /\ UNCHANGED sleeping
\* The same, for an exception raised before any save or broadcast of the
\* current stretch of code.
OnStepException(t, e) == OnStepExceptionFrom(store, FALSE, Hub, t, e)

\* lines 227-230: the step is RUNNING, save_task, broadcast_update.
StepStart ==
  /\ pc = "step_start"
  /\ LET t == [task EXCEPT !.steps[idx].status = STEP_RUNNING] IN
     IF storeUp
     THEN IF BroadcastRaises(BroadcastOutcome(Hub, t))
          THEN OnStepExceptionFrom(SaveTask(t), TRUE, BroadcastUpdate(Hub, t), t, NotifyError)
          ELSE /\ task' = t
               /\ store' = SaveTask(t)
               /\ EntryWritten
               /\ SetHub(BroadcastUpdate(Hub, t))
               /\ pc' = "step_logic"
               /\ UNCHANGED sleeping
               /\ exc' = NoError
     ELSE OnStepException(t, StoreError)
  /\ UNCHANGED <<storeUp, outages, idx, invoked, planned, faulty, cancel>>

\* Mutant: an unknown step type is an error.
CallsCollaboratorOrRaises(type) == TRUE
\* execute_step_logic's dispatch: the step types that reach a collaborator call
\* (which may raise); any other type only logs a warning.
CallsCollaborator(type) == type \in KnownStepTypes
\* design, implementation, testing and documentation read the output of the
\* step at a fixed position (steps[0], steps[1], steps[2], steps[2]) before
\* their collaborator call: a shorter list raises IndexError.
NeededSteps(type) ==
  CASE type = "design" -> 1
    [] type = "implementation" -> 2
    [] type = "testing" -> 3
    [] type = "documentation" -> 3
    [] OTHER -> 0
ExecutorCanSucceed(t, step) == Len(t.steps) >= NeededSteps(step.type)
\* What a successful invocation may leave in output_data["files_created"]:
\* len(new_files) for an implementation step, nothing (0) for the others.
FilesCreatedValues(type) == IF type = "implementation" THEN {0, 2} ELSE {0}

\* Mutant: the output goes to the step at the fixed position the executors read.
StepSucceededWritesFirst(t, i, files) ==
  [t EXCEPT !.steps[1].files_created = files,
            !.steps[i].status = STEP_COMPLETED]
\* lines 233-235: the executor has put its output in step i (the handlers
\* assign step.output_data only, and read other steps without writing them),
\* and the step is COMPLETED.
StepSucceeded(t, i, files) ==
  [t EXCEPT !.steps[i].files_created = files,
            !.steps[i].status = STEP_COMPLETED]

\* lines 233-241 and, on an exception, 243-264: invoke the executor; on success
\* the step is COMPLETED and saved.
ExecuteStepLogic(ok, files) ==
  /\ pc = "step_logic"
  /\ invoked' = [invoked EXCEPT ![idx] = Append(@, ok)]
  /\ LET step == task.steps[idx]
         canSucceed == ExecutorCanSucceed(task, step) IN
     IF ok
     THEN /\ canSucceed
          /\ files \in FilesCreatedValues(step.type)
          /\ UNCHANGED faulty
          /\ LET t == StepSucceeded(task, idx, files) IN
             IF storeUp
             THEN IF BroadcastRaises(BroadcastOutcome(Hub, t))
                  THEN OnStepExceptionFrom(SaveTask(t), TRUE, BroadcastUpdate(Hub, t), t, NotifyError)
                  ELSE /\ task' = t
                       /\ store' = SaveTask(t)
                       /\ EntryWritten
                       /\ SetHub(BroadcastUpdate(Hub, t))
                       /\ pc' = "progress"
                       /\ UNCHANGED sleeping
                       /\ exc' = NoError
             ELSE OnStepException(t, StoreError)
     ELSE /\ files = 0
          /\ CallsCollaborator(step.type)
          /\ \/ ~canSucceed
             \/ idx \in faulty
             \/ Cardinality(faulty) < MaxFaultySteps
          /\ faulty' = IF canSucceed THEN faulty \cup {idx} ELSE faulty
          /\ OnStepException(task, ExecError)
  /\ UNCHANGED <<storeUp, outages, idx, planned, cancel>>

\* line 257-258: the backoff sleep is over, execute_step runs again.
Backoff ==
  /\ pc = "backoff"
  /\ pc' = "step_start"
  /\ sleeping' = 0
  /\ UNCHANGED <<task, store, storeUp, outages, idx, exc, invoked, planned, faulty, cancel, hubVars, qVars>>

\* ------------------------------------------------------------ the loop
\* line 195: the engine looks at its own working copy.
SeesCancelled(t) == t.status = CANCELLED

\* lines 190-196: progress, save_task, the cancellation check, the next step.
UpdateProgress ==
  /\ pc = "progress"
  /\ task' = [task EXCEPT !.progress = ProgressAfter(idx, Len(task.steps))]
  /\ IF storeUp
     THEN /\ store' = SaveTask(task')
          /\ exc' = NoError
          /\ IF SeesCancelled(task') \/ idx = Len(task.steps)
             THEN pc' = "finalize" /\ UNCHANGED idx
             ELSE pc' = "step_start" /\ idx' = NextStep(task.steps, idx)
     ELSE /\ pc' = "except"
          /\ exc' = StoreError
          /\ UNCHANGED <<store, idx>>
  /\ IF storeUp THEN EntryWritten ELSE EntryUntouched
  /\ UNCHANGED <<storeUp, outages, invoked, planned, faulty, cancel, hubVars, sleeping>>

RECURSIVE SumFiles(_)
\* sum(step.output_data.get("files_created", 0) for step in self.task.steps)
SumFiles(steps) ==
  IF steps = <<>> THEN 0 ELSE Head(steps).files_created + SumFiles(Tail(steps))

\* FeatureImplementerAgent.finalize_task: the result map.
FinalizeTask(t) == [t EXCEPT !.result = <<[files_created |-> SumFiles(t.steps)]>>]

\* lines 199-200: a task still RUNNING after the loop becomes COMPLETED.
Completed(t) == IF t.status = RUNNING THEN [t EXCEPT !.status = COMPLETED] ELSE t
\* line 201: finalize_task runs for the task that line 200 has made COMPLETED.
Finalized(t) == IF t.status = COMPLETED THEN FinalizeTask(t) ELSE t

\* lines 199-200, up to the call of the finalize hook.
Complete ==
  /\ pc = "finalize"
  /\ task' = Completed(task)
  /\ pc' = "finalize_task"
  /\ UNCHANGED <<store, storeUp, outages, idx, exc, invoked, planned, faulty, cancel, hubVars, qVars, sleeping>>

\* lines 201-208: the finalize hook, completed_at, save_task.
Finalize(now) ==
  /\ pc = "finalize_task"
  /\ task' = Stamp(Finalized(task), now)
  /\ IF storeUp
     THEN /\ store' = SaveTask(task')
          /\ pc' = "returned"
          /\ exc' = NoError
     ELSE /\ pc' = "except"
          /\ exc' = StoreError
          /\ UNCHANGED store
  /\ IF storeUp THEN EntryWritten ELSE EntryUntouched
  /\ UNCHANGED <<storeUp, outages, idx, invoked, planned, faulty, cancel, hubVars, sleeping>>

\* Mutant: the handler records a fixed text instead of the failure's own.
TaskFailedGenericMessage(t, e) ==
  [t EXCEPT !.status = FAILED, !.error_message = <<"Agent execution failed">>]
\* lines 212-213
TaskFailed(t, e) ==
  [t EXCEPT !.status = FAILED, !.error_message = Str(e)]

\* lines 210-218: execute's handler; it re-raises (or its save_task raises).
ExecuteExcept(now) ==
  /\ pc = "except"
  /\ task' = Stamp(TaskFailed(task, exc), now)
  /\ store' = IF storeUp THEN SaveTask(task') ELSE store
  /\ exc' = IF storeUp THEN exc ELSE StoreError
  /\ pc' = "raised"
  /\ IF storeUp THEN EntryWritten ELSE EntryUntouched
  /\ UNCHANGED <<storeUp, outages, idx, invoked, planned, faulty, cancel, hubVars, sleeping>>


\* ------------------------------------------------------------ cancel
\* Mutant: an already cancelled task is cancelled again.
CancelRefusesFinished(status) == status \in {COMPLETED, FAILED}
\* line 761
CancelRefuses(status) == status \in TerminalStatuses

\* The engine has finished step idx (execute_step returned) and has not yet
\* reached the boundary check before the next step.
BetweenSteps == pc = "progress" /\ idx < Len(task.steps)

\* cancel_agent_task, lines 755-762: read the entry, refuse a missing or a
\* terminal task. Requests come once submission has returned the task id.
CancelCheck(c) ==
  /\ pc \notin {"submit", "submit_failed"}
  /\ cancel[c].pc = "idle"
  /\ \A k \in 1..Len(CancelOrder) :
       CancelOrder[k] = c => \A j \in 1..(k - 1) : cancel[CancelOrder[j]].pc # "idle"
  /\ cancel' = [cancel EXCEPT ![c] =
       IF ~storeUp THEN [@ EXCEPT !.pc = "error"]
       ELSE IF store = <<>> THEN [@ EXCEPT !.pc = "not_found"]
       ELSE IF CancelRefuses(store[1].status) THEN [@ EXCEPT !.pc = "rejected"]
       ELSE [@ EXCEPT !.pc = "checked", !.snap = store]]
  /\ UNCHANGED <<task, store, storeUp, outages, pc, idx, exc, invoked, planned, faulty, hubVars, qVars, sleeping>>

\* lines 764-765: the snapshot that was read, with status CANCELLED
CancelledSnapshot(snap) == [snap EXCEPT !.status = CANCELLED]

\* cancel_agent_task, lines 764-767: write the snapshot back.
CancelWrite(c) ==
  /\ cancel[c].pc = "checked"
  /\ IF storeUp
     THEN /\ store' = Setex(CancelledSnapshot(cancel[c].snap[1]))
          /\ cancel' = [cancel EXCEPT ![c] =
               [pc |-> "ok", snap |-> <<>>, after |-> IF BetweenSteps THEN idx ELSE 0]]
     ELSE /\ cancel' = [cancel EXCEPT ![c] = [@ EXCEPT !.pc = "error", !.snap = <<>>]]
          /\ UNCHANGED store
  /\ IF storeUp THEN EntryWritten ELSE EntryUntouched
  /\ UNCHANGED <<task, storeUp, outages, pc, idx, exc, invoked, planned, faulty, hubVars, sleeping>>

\* ------------------------------------------------------------ environment
\* Redis stops answering: every command raises until it recovers.
StoreFails ==
  /\ storeUp
  /\ outages < MaxOutages
  /\ storeUp' = FALSE
  /\ outages' = outages + 1
  /\ UNCHANGED <<task, store, pc, idx, exc, invoked, planned, faulty, cancel, hubVars, qVars, sleeping>>

StoreRecovers ==
  /\ ~storeUp
  /\ storeUp' = TRUE
  /\ UNCHANGED <<task, store, outages, pc, idx, exc, invoked, planned, faulty, cancel, hubVars, qVars, sleeping>>

\* ------------------------------------------------------------ specifications
Engine ==
  \/ CreateAgentTask
  \/ ExecuteAgentTask
  \/ \E now \in Utcnow(task) : ExecuteStart(now)
  \/ \E o \in PlannerOutcomes : GeneratePlan(o)
  \/ StepStart
  \/ \E ok \in BOOLEAN, files \in {0, 2} : ExecuteStepLogic(ok, files)
  \/ Backoff
  \/ UpdateProgress
  \/ Complete
  \/ \E now \in Utcnow(task) : Finalize(now)
  \/ \E now \in Utcnow(task) : ExecuteExcept(now)

Next ==
  \/ Engine
  \/ \E c \in CancelIds : CancelCheck(c)
  \/ \E c \in CancelIds : CancelWrite(c)

\* The service with a store that always answers.
Spec == Init /\ [][Next]_vars

NextStoreFaults ==
  \/ Engine
  \/ StoreFails
  \/ StoreRecovers

\* The engine alone, with a store that may stop answering.
SpecStoreFaults == Init /\ [][NextStoreFaults]_vars

\* ------------------------------------------------------------ websocket_endpoint
\* Mutant: the registry keeps a list of sockets per project_id.
RegisterAppends(reg, s) == Append(reg, s)
\* line 773, active_connections[project_id] = websocket: the entry after it.
Register(reg, s) == <<s>>
\* lines 780-781, del active_connections[project_id] if there is an entry.
Unregister(reg) == IF reg # <<>> THEN <<>> ELSE reg

\* lines 772-773: accept, then register under the project_id, replacing
\* whatever was registered.
Connect(s) ==
  /\ sockets[s].state = "unused"
  /\ \A k \in 1..Len(SocketOrder) :
       SocketOrder[k] = s => \A j \in 1..(k - 1) : sockets[SocketOrder[j]].state # "unused"
  /\ sockets' = [sockets EXCEPT ![s].state = "open"]
  /\ active_connections' = Register(active_connections, s)
  /\ UNCHANGED <<task, store, storeUp, outages, pc, idx, exc, invoked, planned, faulty, cancel, lastNotify, qVars, sleeping>>

\* The client of socket s goes away; receive_text (line 778) has not raised yet.
ConnectionDrops(s) ==
  /\ sockets[s].state = "open"
  /\ sockets' = [sockets EXCEPT ![s].state = "dropped"]
  /\ UNCHANGED <<task, store, storeUp, outages, pc, idx, exc, invoked, planned, faulty, cancel, active_connections, lastNotify, qVars, sleeping>>

\* lines 779-781: WebSocketDisconnect is handled by deleting the project_id's
\* entry, if there is one.
Disconnect(s) ==
  /\ sockets[s].state = "dropped"
  /\ sockets' = [sockets EXCEPT ![s].state = "closed"]
  /\ active_connections' = Unregister(active_connections)
  /\ UNCHANGED <<task, store, storeUp, outages, pc, idx, exc, invoked, planned, faulty, cancel, lastNotify, qVars, sleeping>>

\* The engine and the websocket clients of the task's project, with a store
\* that answers.
NextNotify ==
  \/ Engine
  \/ \E s \in SocketIds : Connect(s)
  \/ \E s \in SocketIds : ConnectionDrops(s)
  \/ \E s \in SocketIds : Disconnect(s)

SpecNotify == Init /\ [][NextNotify]_vars

\* ------------------------------------------------------------ query and expiry
\* Mutant: the query answers from the engine's working copy.
QueryReplyFromMemory(st) == [status |-> 200, task |-> task]
\* get_agent_task, lines 742-747: 404 without an entry, else the parsed entry.
QueryReply(st) ==
  IF st = <<>> THEN [status |-> 404] ELSE [status |-> 200, task |-> st[1]]

\* get_agent_task: one redis GET. Requests come once submission has returned
\* the task id; a GET that Redis does not answer raises (a 500).
Query ==
  /\ pc \notin {"submit", "submit_failed"}
  /\ sameQueries < MaxQueries
  /\ reply' = IF storeUp THEN QueryReply(store) ELSE [status |-> 500]
  /\ sameQueries' = sameQueries + 1
  /\ UNCHANGED <<task, store, storeUp, outages, pc, idx, exc, invoked, planned, faulty, cancel, hubVars, ttl, sleeping>>

\* The amounts of time the model lets pass at once.
TickSizes == {Ttl \div 2}

\* d seconds pass: Redis removes the entry when its time is up.
Tick(d) ==
  /\ store # <<>>
  /\ IF ttl > d
     THEN /\ ttl' = ttl - d
          /\ UNCHANGED <<store, reply, sameQueries>>
     ELSE /\ ttl' = 0
          /\ store' = <<>>
          /\ reply' = NoReply
          /\ sameQueries' = 0
  /\ UNCHANGED <<task, storeUp, outages, pc, idx, exc, invoked, planned, faulty, cancel, hubVars, sleeping>>

\* The engine, one cancel request, queries and the passing of time, with a
\* store that answers.
NextQuery ==
  \/ Engine
  \/ CancelCheck(CancelOrder[1])
  \/ CancelWrite(CancelOrder[1])
  \/ Query
  \/ \E d \in TickSizes : Tick(d)

SpecQuery == Init /\ [][NextQuery]_vars


\* ------------------------------------------------------------ observers
\* How often the executor was invoked for step i.
Calls(i) == Len(invoked[i])
\* How many of the invocations for step i raised.
Failures(i) == Cardinality({k \in 1..Len(invoked[i]) : ~invoked[i][k]})
\* execute has returned or raised.
Ended == pc \in {"returned", "raised"}
StepIndexes == 1..Len(task.steps)

\* ------------------------------------------------------------ claims

\* C1: if a cancel request succeeds after step N has finished and before step
\* N+1 starts, the executor is never invoked for the steps after N, those
\* steps stay PENDING, and the task ends CANCELLED in the working copy and in
\* the store.
C1_CancelBetweenStepsStopsEngine ==
  \A c \in CancelIds :
    cancel[c].after > 0 =>
      /\ \A j \in StepIndexes :
           j > cancel[c].after => Calls(j) = 0 /\ task.steps[j].status = STEP_PENDING
      /\ Ended => /\ task.status = CANCELLED
                  /\ store # <<>>
                  /\ store[1].status = CANCELLED

\* C2: a step whose executor fails on every invocation is retried exactly
\* max_retries times: the executor is invoked max_retries + 1 times, no more
\* and no fewer, and after the last failure the task is FAILED.
C2_RetriedExactlyMaxRetries ==
  \A i \in StepIndexes :
    LET step == task.steps[i] IN
    (Calls(i) > 0 /\ Failures(i) = Calls(i)) =>
      /\ Calls(i) <= step.max_retries + 1
      /\ Calls(i) <= step.max_retries => task.status # FAILED /\ step.status # STEP_FAILED
      /\ (Calls(i) = step.max_retries + 1) =>
           /\ task.status = FAILED
           /\ step.status = STEP_FAILED
           /\ step.retry_count = step.max_retries
      /\ Ended => Calls(i) = step.max_retries + 1

C2_Witness ==
  \E i \in StepIndexes :
    /\ ExecutorCanSucceed(task, task.steps[i])
    /\ Failures(i) = DefaultMaxRetries + 1
    /\ task.status = FAILED
    /\ pc = "raised"

\* C3: when a task ends FAILED because a step exhausted its retries, the
\* error_message of the final snapshot (working copy and store, after execute
\* has raised) names the failed step.
C3_FinalMessageNamesStep ==
  \A i \in StepIndexes :
    (pc = "raised" /\ task.steps[i].status = STEP_FAILED) =>
      /\ NamesStep(task.error_message, task.steps[i].name)
      /\ (store # <<>> /\ store[1].status = FAILED)
           => NamesStep(store[1].error_message, task.steps[i].name)

\* C4: if a step's executor fails on its first two invocations and succeeds on
\* the third, and every other step's executor succeeds, then the executor is
\* invoked exactly three times for the step, the step ends COMPLETED with
\* retry_count 2 and no error message, and the task ends COMPLETED.
C4_FailsTwiceThenSucceeds ==
  \A i \in StepIndexes :
    (Calls(i) >= 3 /\ SubSeq(invoked[i], 1, 3) = <<FALSE, FALSE, TRUE>>) =>
      LET step == task.steps[i] IN
      /\ Calls(i) = 3
      /\ step.status = STEP_COMPLETED
      /\ step.retry_count = 2
      /\ step.error_message = NoMessage
      /\ (Ended /\ \A j \in StepIndexes \ {i} : Failures(j) = 0) =>
           pc = "returned" /\ task.status = COMPLETED

C4_Witness ==
  \E i \in StepIndexes :
    /\ invoked[i] = <<FALSE, FALSE, TRUE>>
    /\ \A j \in StepIndexes \ {i} : invoked[j] = <<TRUE>>
    /\ pc = "returned"
    /\ task.status = COMPLETED
    /\ Len(task.steps) > 1


\* C5: in every state of the working copy 0 <= progress <= 100, and no step
\* from a state in which the task is not terminal decreases progress.
C5_ProgressBoundedMonotone ==
  /\ [](ProgressInRange(task.progress))
  /\ [][task.status \notin TerminalStatuses
          => ProgressLeq(task.progress, task'.progress)]_vars

C5_Witness ==
  /\ task.status = RUNNING
  /\ task.progress.num = 2
  /\ task.progress.den = 5
  /\ pc = "step_logic"

\* The snapshots there are: the working copy and the stored one.
Snapshots == {task} \cup {store[k] : k \in 1..Len(store)}
AllStepsCompleted(t) == \A i \in 1..Len(t.steps) : t.steps[i].status = STEP_COMPLETED

\* C6 as claimed: in the working copy and in every stored snapshot, progress
\* is 100 only if the status is COMPLETED.
C6_Progress100OnlyIfCompleted ==
  \A t \in Snapshots : ProgressIs100(t.progress) => t.status = COMPLETED

\* C6 as amended: in the working copy and in every stored snapshot, progress
\* is 100 only if every step is COMPLETED and the task is no longer PENDING
\* (it is still RUNNING when the progress of the last step is saved).
C6_Progress100OnlyAfterAllSteps ==
  \A t \in Snapshots :
    ProgressIs100(t.progress) =>
      /\ Len(t.steps) > 0
      /\ AllStepsCompleted(t)
      /\ t.status # PENDING

C6_Witness ==
  /\ store # <<>>
  /\ ProgressIs100(store[1].progress)
  /\ store[1].status = RUNNING
  /\ pc = "finalize"

\* The identity, name and type of each step, in order.
Skeleton(steps) ==
  [i \in 1..Len(steps) |->
     [id |-> steps[i].id, name |-> steps[i].name, type |-> steps[i].type]]

\* C7: whenever the planner fails, by raising or by returning output that does
\* not parse into steps, the steps are the default step sequence and the task
\* is not FAILED because of the planning failure.
C7_PlanningFailureNotFatal ==
  planned \in {"raises", "unparsable"} =>
    /\ Skeleton(task.steps) = Skeleton(DefaultPlan)
    /\ ~(task.status = FAILED /\ task.error_message = Str(PlannerError))

\* C8: once the working copy or the stored snapshot has a terminal status, no
\* later step of the engine or of a cancel request changes it.
C8_TerminalIsImmutable ==
  [][/\ task.status \in TerminalStatuses => task' = task
     /\ (store # <<>> /\ store[1].status \in TerminalStatuses) => store' = store]_vars

\* C9: a cancel request that finds a terminal status in the store is rejected
\* and writes nothing, also when two requests run concurrently; a request that
\* finds a non-terminal status leaves the stored status CANCELLED when it
\* writes.
C9_CancelChecksStatus ==
  [][\A c \in CancelIds :
       /\ (cancel[c].pc = "idle" /\ cancel'[c].pc # "idle" /\ store # <<>>) =>
            /\ store' = store
            /\ (store[1].status \in TerminalStatuses) = (cancel'[c].pc = "rejected")
            /\ (store[1].status \notin TerminalStatuses) = (cancel'[c].pc = "checked")
       /\ cancel[c].pc = "rejected" => cancel'[c] = cancel[c]
       /\ (cancel[c].pc = "checked" /\ cancel'[c].pc # "checked") =>
            /\ cancel'[c].pc = "ok"
            /\ store' # <<>>
            /\ store'[1].status = CANCELLED]_vars

C9_Witness ==
  /\ store # <<>>
  /\ store[1].status = COMPLETED
  /\ cancel["c1"].pc = "rejected"
  /\ cancel["c2"].pc = "rejected"

\* C10: a failing store write during execute or execute_step changes no
\* status, causes no retry and no further executor invocation, and does not
\* abort the run: every retry follows a failed executor invocation, the
\* executor is not invoked again after it returned, and no store error
\* reaches execute's handler or fails the task.
C10_StoreFailureIsObservational ==
  /\ \A i \in StepIndexes :
       /\ task.steps[i].retry_count <= Failures(i)
       /\ Calls(i) <= Failures(i) + 1
  /\ exc # StoreError
  /\ task.error_message # Str(StoreError)


\* The background execution has ended: execute returned or raised, or
\* create_agent raised.
WorkerEnded == pc \in {"returned", "raised", "no_agent"}

\* C12: every submitted task, whatever its variant, ends with a terminal
\* status in the store: once the background execution has ended, the stored
\* status is COMPLETED, FAILED or CANCELLED.
C12_EveryTaskEndsTerminal ==
  WorkerEnded => store # <<>> /\ store[1].status \in TerminalStatuses

\* C13: every snapshot with a terminal status has exactly one of a populated
\* result map and a non-empty error_message.
C13_ResultXorError ==
  \A t \in Snapshots :
    t.status \in TerminalStatuses =>
      (t.result # <<>>) # (t.error_message # NoMessage)

\* C14: a step of a type the executor does not know is a no-op success: it is
\* invoked once, ends COMPLETED with retry_count 0 and no error, does not fail
\* the task, progress advances past it, and the following step is executed.
C14_UnknownStepTypeIsNoOp ==
  \A i \in StepIndexes :
    (task.steps[i].type \notin KnownStepTypes /\ Calls(i) > 0) =>
      LET step == task.steps[i]
          n == Len(task.steps) IN
      /\ invoked[i] = <<TRUE>>
      /\ step.status = STEP_COMPLETED
      /\ step.retry_count = 0
      /\ step.error_message = NoMessage
      /\ task.status = FAILED => \E j \in StepIndexes \ {i} : task.steps[j].status = STEP_FAILED
      /\ (idx > i \/ pc \in {"finalize", "finalize_task", "returned"}) =>
           ProgressLeq(Progress(i, n), task.progress)
      /\ (Ended /\ i < n) => Calls(i + 1) > 0

C14_Witness ==
  /\ Len(task.steps) = 2
  /\ task.steps[1].type = "deploy"
  /\ task.steps[1].status = STEP_COMPLETED
  /\ task.progress = Progress(1, 2)
  /\ Calls(2) > 0

\* C17: once planning has completed, the steps list is never empty, whatever
\* the planner returned.
C17_StepsNonEmptyAfterPlanning ==
  planned \in {"unparsable", "parsed"} => Len(task.steps) > 0

\* C19: submission stores and returns the PENDING snapshot (no steps, progress
\* 0) and does not wait for the execution: while the execution is queued the
\* engine has written nothing, and the store holds that snapshot (or its
\* cancelled copy) before the engine's first write.
C19_SubmissionStoresPending ==
  /\ [](pc = "queued" =>
          /\ task.status = PENDING
          /\ task.steps = <<>>
          /\ task.progress = ZeroProgress
          /\ store # <<>>
          /\ store[1] \in {task, CancelledSnapshot(task)})
  /\ [][(pc = "submit" /\ pc' = "queued") => (task' = task /\ store' = <<task>>)]_vars
  /\ [][(store # <<>> /\ store'[1].status = RUNNING /\ store[1].status # RUNNING)
          => pc \notin {"submit", "queued"}]_vars

C19_Witness ==
  /\ pc = "queued"
  /\ store = <<task>>
  /\ task.status = PENDING
  /\ task.steps = <<>>

\* C20: for every step, in the working copy and in every stored snapshot,
\* 0 <= retry_count <= max_retries.
C20_RetryCountWithinMax ==
  \A t \in Snapshots :
    \A i \in 1..Len(t.steps) :
      /\ t.steps[i].retry_count \in Nat
      /\ t.steps[i].retry_count <= t.steps[i].max_retries

C20_Witness ==
  \E i \in StepIndexes :
    /\ task.steps[i].retry_count = task.steps[i].max_retries
    /\ task.steps[i].status = STEP_COMPLETED
    /\ store # <<>>
    /\ store[1].steps[i].retry_count = DefaultMaxRetries


\* The steps of snapshot t that are RUNNING.
RunningSteps(t) == {i \in 1..Len(t.steps) : t.steps[i].status = STEP_RUNNING}

\* C15: steps are executed strictly in list order: no snapshot has two steps
\* RUNNING, the executor is invoked for a step only after the step before it
\* is COMPLETED, and a step that has not started has no started step after
\* it, whatever dependencies the steps declare.
C15_StepsSequentialInListOrder ==
  /\ \A t \in Snapshots : Cardinality(RunningSteps(t)) <= 1
  /\ \A i \in StepIndexes :
       (i > 1 /\ (Calls(i) > 0 \/ task.steps[i].status # STEP_PENDING)) =>
         /\ task.steps[i - 1].status = STEP_COMPLETED
         /\ invoked[i - 1] # <<>>
         /\ invoked[i - 1][Len(invoked[i - 1])]

C15_Witness ==
  /\ Len(task.steps) = 2
  /\ task.steps[1].dependencies = <<StepId(1)>>
  /\ task.steps[1].status = STEP_COMPLETED
  /\ task.steps[2].status = STEP_RUNNING
  /\ Calls(2) = 0


\* The smaller of two naturals.
Min(a, b) == IF a <= b THEN a ELSE b

\* C11: a notification without a registered socket, or whose delivery fails,
\* returns normally and leaves the run as a delivered one would: no send
\* error reaches a handler or a message, the step goes on from where it was
\* (RUNNING before the executor, COMPLETED after it), every retry follows a
\* failed executor invocation and the executor is not invoked again after it
\* returned.
C11_NotifyIsFireAndForget ==
  /\ exc # NotifyError
  /\ task.error_message # Str(NotifyError)
  /\ \A i \in StepIndexes :
       /\ task.steps[i].error_message # Str(NotifyError)
       /\ task.steps[i].retry_count = Min(Failures(i), task.steps[i].max_retries)
       /\ Calls(i) <= Failures(i) + 1
  /\ (lastNotify \in {"no_sink", "failed"} /\ pc = "step_logic") =>
       task.steps[idx].status = STEP_RUNNING
  /\ (lastNotify \in {"no_sink", "failed"} /\ pc = "progress") =>
       task.steps[idx].status = STEP_COMPLETED

C11_Witness ==
  /\ lastNotify = "failed"
  /\ active_connections # <<>>
  /\ pc = "returned"
  /\ task.status = COMPLETED
  /\ \E i \in StepIndexes : Failures(i) > 0

\* C16: every mutation the engine persists is followed by a notification: a
\* client whose socket is registered and open when the engine saves receives
\* one event for that save.
C16_EveryPersistedMutationNotified ==
  [][\A s \in SocketIds :
       (/\ active_connections = <<s>>
        /\ sockets[s].state = "open"
        /\ sockets'[s].state = "open"
        /\ pc # "submit"
        /\ pc' # pc
        /\ store' # store)
       => sockets'[s].received = sockets[s].received + 1]_vars


\* C18: a query is read-only and idempotent: it changes neither the entry nor
\* its expiry nor the engine's working copy, and as long as the entry has not
\* been written or removed since, the reply of the latest query is the entry
\* as it stands (not-found when there is none), so that a query repeated
\* then returns the identical reply.
C18_QueryReadOnlyIdempotent ==
  /\ [](sameQueries > 0 =>
          reply = IF store = <<>> THEN [status |-> 404]
                  ELSE [status |-> 200, task |-> store[1]])
  /\ [][sameQueries' > sameQueries =>
          /\ store' = store
          /\ ttl' = ttl
          /\ task' = task
          /\ sameQueries > 0 => reply' = reply]_vars

C18_Witness ==
  /\ sameQueries = 2
  /\ reply.status = 200
  /\ reply.task.status = RUNNING
  /\ store = <<reply.task>>
  /\ task # reply.task
  /\ ttl < Ttl


\* C21: on successful completion result.files_created is the sum of the
\* steps' files_created, and a task planned as a single implementation step,
\* none of whose collaborator calls fails, ends COMPLETED with the
\* files_created of that step as result.
C21_FinalizeSumsFilesCreated ==
  /\ \A t \in Snapshots :
       t.status = COMPLETED /\ t.result # <<>> =>
         t.result = <<[files_created |-> SumFiles(t.steps)]>>
  /\ (/\ Ended
      /\ Len(task.steps) = 1
      /\ task.steps[1].type = "implementation"
      /\ faulty = {})
     => /\ task.status = COMPLETED
        /\ task.result = <<[files_created |-> task.steps[1].files_created]>>

\* Step k has used up its retries: every one of its max_retries + 1
\* invocations failed.
Exhausted(k) == Failures(k) > task.steps[k].max_retries

\* C23: when step k exhausts its retries, step k and the task are FAILED, the
\* executor is never invoked for a later step, every later step is still
\* PENDING and every earlier step is COMPLETED.
C23_ExhaustionStopsTheTask ==
  \A k \in StepIndexes :
    Exhausted(k) =>
      /\ task.steps[k].status = STEP_FAILED
      /\ task.status = FAILED
      /\ \A j \in StepIndexes :
           /\ j > k => Calls(j) = 0 /\ task.steps[j].status = STEP_PENDING
           /\ j < k => task.steps[j].status = STEP_COMPLETED

C23_Witness ==
  /\ pc = "raised"
  /\ Len(task.steps) = 5
  /\ Exhausted(2)
  /\ task.steps[1].status = STEP_COMPLETED
  /\ task.steps[2].status = STEP_FAILED
  /\ task.steps[3].status = STEP_PENDING
  /\ store # <<>>
  /\ store[1].status = FAILED

\* C24: a failure that reaches execute's handler is handled once: the working
\* copy becomes FAILED with the failure's description as error message, that
\* snapshot is stored, and execute raises the same failure instead of
\* returning.
C24_TopLevelHandler ==
  /\ [][(pc = "except" /\ pc' # pc) =>
          /\ pc' = "raised"
          /\ task'.status = FAILED
          /\ task'.error_message = Str(exc)
          /\ store' = <<task'>>
          /\ exc' = exc]_vars
  /\ [](pc = "raised" => exc # NoError /\ task.status = FAILED)
  /\ [][pc = "raised" => pc' = "raised"]_vars

C24_Witness ==
  /\ pc = "raised"
  /\ planned = "raises"
  /\ exc = PlannerError
  /\ task.error_message = Str(PlannerError)
  /\ store = <<task>>

\* C27: a populated result is found only on a COMPLETED task, in the working
\* copy and in every stored snapshot.
C27_ResultOnlyWhenCompleted ==
  \A t \in Snapshots : t.result # <<>> => t.status = COMPLETED

\* Step i has finished: it is COMPLETED and the loop has gone past it, or it
\* is FAILED and execute has ended.
Finished(i) ==
  \/ /\ task.steps[i].status = STEP_COMPLETED
     /\ idx > i \/ pc \in {"finalize", "finalize_task", "returned"}
  \/ /\ task.steps[i].status = STEP_FAILED
     /\ Ended

\* C28: after step i of n has finished, by success or by exhausted retries,
\* progress has been set to i / n (i counted from 1) and stored (the store is
\* looked at in the runs in which no cancel request has written to it).
C28_ProgressAfterEveryOutcome ==
  \A i \in StepIndexes :
    Finished(i) =>
      /\ ProgressLeq(Progress(i, Len(task.steps)), task.progress)
      /\ (store # <<>> /\ \A c \in CancelIds : cancel[c].pc # "ok") =>
           ProgressLeq(Progress(i, Len(task.steps)), store[1].progress)


\* C22: the registry holds at most one socket for the project_id: a
\* registration replaces the socket registered before it, and after an
\* unregistration there is none.
C22_OneSinkPerKey ==
  /\ [](Len(active_connections) <= 1)
  /\ [][\A s \in SocketIds :
          /\ (sockets[s].state = "unused" /\ sockets'[s].state = "open") =>
               active_connections' = <<s>>
          /\ (sockets[s].state = "dropped" /\ sockets'[s].state = "closed") =>
               active_connections' = <<>>]_vars

C22_Witness ==
  /\ active_connections = <<"w2">>
  /\ sockets["w1"].state = "open"
  /\ sockets["w2"].state = "open"


\* C26: the task is COMPLETED only after the finalize hook has returned: in
\* no state is the status COMPLETED while the hook has still to run or the
\* result is still empty.
C26_CompletedOnlyAfterFinalize ==
  task.status = COMPLETED => pc # "finalize_task" /\ task.result # <<>>


\* The engine is in execute_step for step idx: before an attempt, in its
\* executor, or in the sleep before a retry.
InExecuteStep == pc \in {"step_start", "step_logic", "backoff"}

\* C29: retrying is transparent to progress: from the first attempt of a step
\* until execute_step returns or raises for it, no step of the engine changes
\* the task's progress, and every snapshot stored on the way carries it.
C29_RetryKeepsProgress ==
  [][InExecuteStep =>
       /\ task'.progress = task.progress
       /\ (pc' # pc /\ store' # <<>>) => store'[1].progress \in {task.progress, store[1].progress}]_vars

C29_Witness ==
  /\ pc = "backoff"
  /\ idx = 2
  /\ task.steps[2].retry_count = 2
  /\ task.progress = Progress(1, Len(task.steps))

\* C30: retry_count only ever grows by one, on entering the wait before a
\* retry; in the wait before the k-th retry of a step (k = 1..max_retries) the
\* step has retry_count k, no error message and status PENDING, the engine
\* sleeps 2^k, and no invocation happens during the wait; the engine sleeps
\* nowhere else.
C30_BackoffBeforeRetry ==
  /\ [](pc = "backoff" =>
          LET step == task.steps[idx] IN
          /\ step.retry_count \in 1..step.max_retries
          /\ step.error_message = NoMessage
          /\ step.status = STEP_PENDING
          /\ sleeping = 2^step.retry_count)
  /\ [](pc # "backoff" => sleeping = 0)
  /\ [][pc = "backoff" => invoked' = invoked]_vars
  /\ [][\A i \in StepIndexes :
          (task'.steps # <<>> /\ task'.steps[i].retry_count # task.steps[i].retry_count) =>
            /\ i = idx
            /\ task'.steps[i].retry_count = task.steps[i].retry_count + 1
            /\ pc # "backoff"
            /\ pc' = "backoff"]_vars

C30_Witness ==
  /\ pc = "backoff"
  /\ task.steps[idx].retry_count = DefaultMaxRetries
  /\ sleeping = 8


\* Snapshot t carries its completion time and, if it has a start time, the
\* difference of the two as duration.
Stamped(t) ==
  /\ t.completed_at # NoTime
  /\ t.started_at # NoTime =>
       /\ t.duration # NoTime
       /\ t.duration[1] = t.completed_at[1] - t.started_at[1]

\* C25: the last snapshot execute stores has completed_at set and
\* duration = completed_at - started_at, whatever the outcome: the step that
\* ends execute stores such a snapshot, and the engine changes and stores
\* nothing after it.
C25_FinalSnapshotIsStamped ==
  /\ [][(Ended' /\ ~Ended) => (store' = <<task'>> /\ Stamped(task'))]_vars
  /\ [](Ended => Stamped(task))
  /\ [][Ended => (task' = task /\ pc' = pc)]_vars

C25_Witness ==
  /\ pc = "returned"
  /\ task.status = COMPLETED
  /\ task.started_at = <<100>>
  /\ task.duration = <<7>>
  /\ store = <<task>>

\* The default step types, in the order of lines 405-436.
DefaultTypes == <<"analysis", "design", "implementation", "testing", "documentation">>

\* C31: when the planner's response does not parse into a step list, the
\* steps are exactly step_0..step_4 of types analysis, design, implementation,
\* testing, documentation in that order, each PENDING with retry_count 0 when
\* planning returns, and the engine goes on to execute them from the first: a
\* run that returns has invoked the executor for each of the five.
C31_UnparsablePlanGivesDefaultSteps ==
  /\ [][(planned = "none" /\ planned' = "unparsable") =>
          /\ Len(task'.steps) = 5
          /\ \A i \in 1..5 :
               /\ task'.steps[i].id = <<"step", i - 1>>
               /\ task'.steps[i].type = DefaultTypes[i]
               /\ task'.steps[i].status = STEP_PENDING
               /\ task'.steps[i].retry_count = 0
          /\ pc' = "step_start"
          /\ idx' = 1]_vars
  /\ [](planned = "unparsable" =>
          /\ Len(task.steps) = 5
          /\ \A i \in 1..5 : /\ task.steps[i].id = <<"step", i - 1>>
                             /\ task.steps[i].type = DefaultTypes[i]
          /\ pc = "returned" => \A i \in 1..5 : Calls(i) >= 1)

\* The default plan was executed to the end after an unparsable response.
C31_Witness ==
  /\ planned = "unparsable"
  /\ pc = "returned"
  /\ task.status = COMPLETED
  /\ \A i \in 1..5 : Calls(i) >= 1 /\ task.steps[i].type = DefaultTypes[i]

\* The ids of a step list, in order.
StepIds(steps) == [i \in 1..Len(steps) |-> steps[i].id]
PairwiseDistinct(seq) ==
  \A i \in 1..Len(seq), j \in 1..Len(seq) : i # j => seq[i] # seq[j]

\* C32: once planning is over no step of the engine or of a cancel request
\* changes the sequence of step ids of the task (their number, identities and
\* order), and step ids are pairwise distinct in the task and in every stored
\* snapshot.
C32_StepIdsFixedAfterPlanning ==
  /\ [][planned # "none" => StepIds(task'.steps) = StepIds(task.steps)]_vars
  /\ [](\A t \in Snapshots : PairwiseDistinct(StepIds(t.steps)))

\* A planned two-step task failed after a step used up its retries: its ids
\* are still the planned ones.
C32_Witness ==
  /\ planned = "parsed"
  /\ task.status = FAILED
  /\ StepIds(task.steps) = << <<"step", 0>>, <<"step", 1>> >>
  /\ \E i \in 1..2 : task.steps[i].retry_count = 3

\* A step of the engine that runs through a setex while the store answers:
\* submission (719-723), and the save_task calls of execute and execute_step.
EngineSaves ==
  /\ pc' # pc
  /\ \/ pc \in {"submit", "execute", "step_start", "progress", "finalize_task", "except"}
     \/ pc = "step_logic" /\ pc' \in {"progress", "except"}
\* A cancel request's setex (line 765).
CancelSaves == \E c \in CancelIds : cancel[c].pc = "checked" /\ cancel'[c].pc = "ok"

\* C33: every save, by the engine, by submission or by the cancel endpoint,
\* leaves one whole snapshot under the task's key with the full expiry of 3600
\* seconds; the remaining lifetime only goes down while time passes without a
\* save, and the entry is removed only by the passing of time, when 3600
\* seconds have gone by since the last save.
C33_EverySaveRenewsExpiry ==
  /\ [][EngineSaves => store' = <<task'>> /\ ttl' = 3600]_vars
  /\ [][CancelSaves =>
          /\ \E c \in CancelIds : store' = <<[cancel[c].snap[1] EXCEPT !.status = CANCELLED]>>
          /\ ttl' = 3600]_vars
  /\ [][ttl' < ttl => ~EngineSaves /\ ~CancelSaves /\ pc' = pc /\ cancel' = cancel]_vars
  /\ [][(store # <<>> /\ store' = <<>>) => (3600 - ttl) + 1800 >= 3600]_vars
  /\ [](store # <<>> => ttl \in 1..3600)

\* A cancel request wrote while the engine is in a step: the entry holds the
\* cancelled snapshot with the full expiry.
C33_Witness ==
  /\ cancel[CancelOrder[1]].pc = "ok"
  /\ store # <<>> /\ store[1].status = CANCELLED
  /\ ttl = 3600
  /\ pc = "step_logic"

\* C34: an invocation of the step executor for step idx, whether it succeeds,
\* is retried or fails the task, leaves every other step of the task as it
\* was (status, output, error message and retry counter included), and the
\* number of steps unchanged.
C34_ExecutorMutatesOnlyItsStep ==
  [][pc = "step_logic" =>
       /\ Len(task'.steps) = Len(task.steps)
       /\ \A j \in 1..Len(task.steps) : j # idx => task'.steps[j] = task.steps[j]]_vars

\* The executor has succeeded for the second step; the first keeps the output
\* and the retry count it ended with.
C34_Witness ==
  /\ pc = "progress"
  /\ idx = 2
  /\ task.steps[2].status = STEP_COMPLETED
  /\ task.steps[1].status = STEP_COMPLETED
  /\ task.steps[1].files_created = 2
  /\ task.steps[1].retry_count = 1

\* C35: the stored snapshot never goes backwards while the engine runs
\* concurrently with cancel requests: from one stored snapshot to the next the
\* progress does not decrease, and a step stored as COMPLETED is not stored
\* as RUNNING or PENDING afterwards.
C35_StoredSnapshotNeverGoesBack ==
  [][(store # <<>> /\ store' # <<>>) =>
       /\ ProgressLeq(store[1].progress, store'[1].progress)
       /\ \A i \in 1..Len(store[1].steps) :
            (store[1].steps[i].status = STEP_COMPLETED /\ i <= Len(store'[1].steps)) =>
              store'[1].steps[i].status \notin {STEP_RUNNING, STEP_PENDING}]_vars

\* C36: when the socket registered for the project_id has been replaced by a
\* newer one, the disconnect of the older socket leaves the registration of
\* the newer one in place.
C36_OlderDisconnectKeepsNewerSink ==
  [][\A s \in SocketIds :
       (/\ sockets[s].state = "dropped" /\ sockets'[s].state = "closed"
        /\ active_connections # <<>>
        /\ active_connections[1] # s) =>
         active_connections' = active_connections]_vars

\* C37: whenever the status of the task is COMPLETED, in the working copy
\* or in a stored snapshot, every one of its steps has status COMPLETED.
C37_CompletedTaskHasCompletedSteps ==
  \A t \in Snapshots :
    t.status = COMPLETED => \A i \in 1..Len(t.steps) : t.steps[i].status = STEP_COMPLETED

\* The default plan ran to the end, one step after a retry, and the COMPLETED
\* snapshot is stored.
C37_Witness ==
  /\ pc = "returned"
  /\ task.status = COMPLETED
  /\ store = <<task>>
  /\ Len(task.steps) = 5
  /\ \E i \in 1..5 : task.steps[i].retry_count > 0

\* C38: whenever the status of the task is COMPLETED, in the working copy or
\* in a stored snapshot, its progress is exactly 100, whatever plan the planner
\* returned.
C38_CompletedTaskHasProgress100 ==
  \A t \in Snapshots : t.status = COMPLETED => ProgressIs100(t.progress)

====
